---- MODULE Spec2Model ----
(***************************************************************************)
(* Guest book service: a MongoDB collection ("entry") of participant       *)
(* documents, loaded from CSV, checked in one by one, reset, exported.     *)
(* Two deployment variants of the handlers exist in the repository:        *)
(*   "app"  : src/app/database.py + src/app/main.py  (key "id", upsert)    *)
(*   "root" : src/database.py + src/main.py          (key "nim", insert)   *)
(* Every handler is an async coroutine: it is modelled as a process whose  *)
(* steps are the pieces of code between two awaited store calls.           *)
(***************************************************************************)
EXTENDS Integers, Sequences, FiniteSets, TLC

(***************************************************************************)
(* Bounds of the model.                                                    *)
(***************************************************************************)
NProcs == 2     \* requests in flight at the same time
MaxDocs == 3    \* documents the collection may hold
MaxClock == 2    \* readings of the wall clock that yield a fresh timestamp
NSubs == 2      \* websocket clients of /update
MaxOplog == 3   \* changes the feed carries before new requests are held back
MaxEntries == 2 \* documents of a collection that other tools have filled

Procs == 1..NProcs
Subs == 1..NSubs

(***************************************************************************)
(* Python values.  A document field holds a str, a bool, None, or the      *)
(* ObjectId the store assigns; they are tagged so that the str "False"     *)
(* and the bool False stay different values, as they are in Python/BSON.   *)
(***************************************************************************)
Str(s) == <<"str", s>>
PyBool(b) == <<"bool", b>>
PyInt(n) == <<"int", n>>
PyNone == <<"none">>
ObjectId(n) == <<"oid", n>>

\* bool(v): the truth value Python gives v in `if v:` / `v or w`
Truthy(v) ==
    CASE v[1] = "bool" -> v[2]
      [] v[1] = "str" -> v[2] /= ""
      [] v[1] = "int" -> v[2] /= 0
      [] v[1] = "oid" -> TRUE
      [] OTHER -> FALSE

\* v or w
PyOr(v, w) == IF Truthy(v) THEN v ELSE w

\* str.strip() on the strings of the model: the padded ones lose their
\* surrounding blanks, the others have none
strip(s) ==
    CASE s = " A1" -> "A1"
      [] s = "Alice " -> "Alice"
      [] OTHER -> s

\* dict.get(key, default)
Get(d, key, default) == IF key \in DOMAIN d THEN d[key] ELSE default

Range(s) == {s[i] : i \in DOMAIN s}

\* datetime.now()...isoformat(): the n-th reading of the clock, as a str
IsoTimes == <<"2024-01-01T08:00:01+07:00", "2024-01-01T08:00:02+07:00",
              "2024-01-01T08:00:03+07:00", "2024-01-01T08:00:04+07:00",
              "2024-01-01T08:00:05+07:00", "2024-01-01T08:00:06+07:00">>
isoformat(n) == Str(IsoTimes[n])

(***************************************************************************)
(* The store: the MongoDB collection DB.entry, a sequence of documents in  *)
(* insertion order (the order find({}) and find_one scan).  A document is  *)
(* a mapping from field names to values.  The handlers create no index, so *)
(* only "_id" is unique.  No handler deletes, so the n-th document         *)
(* inserted keeps position n and carries ObjectId(n).                      *)
(***************************************************************************)
NoDoc == [f \in {} |-> PyNone]      \* what find_one returns for no match

Matches(doc, field, val) == field \in DOMAIN doc /\ doc[field] = val

\* position of the first document whose `field` equals `val`, 0 if none
FirstMatch(coll, field, val) ==
    IF \E i \in DOMAIN coll : Matches(coll[i], field, val)
    THEN CHOOSE i \in DOMAIN coll :
             /\ Matches(coll[i], field, val)
             /\ \A j \in 1..(i - 1) : ~Matches(coll[j], field, val)
    ELSE 0

\* {"$set": fields} applied to one document
ApplySet(doc, fields) ==
    [f \in DOMAIN doc \cup DOMAIN fields |->
        IF f \in DOMAIN fields THEN fields[f] ELSE doc[f]]

\* a find_one that ignores its filter: the first document, if any
find_one_first(coll, field, val) == IF coll = <<>> THEN NoDoc ELSE coll[1]

\* DB.entry.find_one({field: val})
find_one(coll, field, val) ==
    LET i == FirstMatch(coll, field, val)
    IN  IF i = 0 THEN NoDoc ELSE coll[i]

\* update_one whose upsert inserts without looking for a match
update_one_insert_always(coll, field, val, fields, upsert) ==
    LET i == FirstMatch(coll, field, val)
    IN  IF upsert
        THEN Append(coll,
                 ApplySet([f \in {"_id", field} |->
                              IF f = "_id" THEN ObjectId(Len(coll) + 1)
                              ELSE val],
                          fields))
        ELSE IF i /= 0
             THEN [coll EXCEPT ![i] = ApplySet(coll[i], fields)]
             ELSE coll

\* DB.entry.update_one({field: val}, {"$set": fields}, upsert=...): the
\* collection afterwards.  Without a match an upsert inserts the query's
\* equality field and the $set fields under a fresh _id.  The server applies
\* one update_one as one step.
update_one(coll, field, val, fields, upsert) ==
    LET i == FirstMatch(coll, field, val)
    IN  IF i /= 0
        THEN [coll EXCEPT ![i] = ApplySet(coll[i], fields)]
        ELSE IF upsert
             THEN Append(coll,
                      ApplySet([f \in {"_id", field} |->
                                   IF f = "_id" THEN ObjectId(Len(coll) + 1)
                                   ELSE val],
                               fields))
             ELSE coll

\* DB.entry.update_many({}, {"$set": fields}): the collection afterwards
update_many(coll, fields) ==
    [i \in DOMAIN coll |-> ApplySet(coll[i], fields)]

\* result.modified_count of that update_many: the documents it changed
modified_count(coll, fields) ==
    Cardinality({i \in DOMAIN coll : ApplySet(coll[i], fields) /= coll[i]})

\* DB.entry.insert_many(docs): every document is appended under a fresh _id
insert_many(coll, docs) ==
    coll \o [i \in DOMAIN docs |->
                ApplySet(docs[i],
                         [f \in {"_id"} |-> ObjectId(Len(coll) + i)])]

\* DB.entry.distinct(field)
distinct(coll, field) ==
    {coll[i][field] : i \in {j \in DOMAIN coll : field \in DOMAIN coll[j]}}

(***************************************************************************)
(* The change feed.  Every write that changes the collection is recorded   *)
(* as change events, one per document inserted or modified, in commit      *)
(* order; an update that leaves a document as it was records nothing.  An  *)
(* event's clusterTime is its position in the feed.                        *)
(***************************************************************************)
\* the fields of `new` that differ from `old`
UpdatedFields(old, new) ==
    [f \in {g \in DOMAIN new : g \notin DOMAIN old \/ old[g] /= new[g]} |-> new[f]]

\* the change event of the document at position i, written as `new`
ChangeEvent(old, new, i) ==
    IF i > Len(old)
    THEN [operationType |-> "insert", documentKey |-> new[i]["_id"],
          updatedFields |-> new[i]]
    ELSE [operationType |-> "update", documentKey |-> new[i]["_id"],
          updatedFields |-> UpdatedFields(old[i], new[i])]

RECURSIVE ChangesFrom(_, _, _)
\* the events of a write that turns collection `old` into `new`, from
\* position i on
ChangesFrom(old, new, i) ==
    IF i > Len(new) THEN <<>>
    ELSE IF i <= Len(old) /\ old[i] = new[i]
         THEN ChangesFrom(old, new, i + 1)
         ELSE <<ChangeEvent(old, new, i)>> \o ChangesFrom(old, new, i + 1)

\* {"$match": {"operationType": {"$in": ["update", "replace"]}}}
pipeline(change) == change.operationType \in {"update", "replace"}

\* json.dumps(entry): str, bool and None stay apart as string, true/false
\* and null
json_dumps(entry) == <<"json", entry>>

\* entry.pop("_id", None)
pop_id(entry) == [f \in DOMAIN entry \ {"_id"} |-> entry[f]]

(***************************************************************************)
(* Uploaded files.  A file is its content type, its header line and its    *)
(* data lines, each line already split into cells (the lexing of commas    *)
(* and quotes is the csv module's); an empty byte stream has no header.    *)
(***************************************************************************)
CheckInColumns == <<"check_in", "checked_in_at">>

\* src/database.py: expected_header
expected_header ==
    <<"nim", "name", "address", "phone_number", "email", "major",
      "study_program", "generation", "status">>

\* the column a deployment keys its documents on
KeyField(v) == IF v = "app" THEN "id" ELSE "nim"

\* the columns a well-formed upload of the deployment starts with
BaseHeader(v) == IF v = "app" THEN <<"id", "name">> ELSE expected_header

\* the cells under BaseHeader(v) of a participant with key k and name n
BaseCells(v, k, n) ==
    IF v = "app" THEN <<k, n>>
    ELSE <<k, n, "Jl. Mawar 1", "0812", "guest@mail.id", "Informatics",
           "S1", "2020", "active">>

\* csv.DictReader: one dict per data line, keyed by the header's names; a
\* line shorter than the header yields None for the missing cells
DictReader(file) ==
    [r \in DOMAIN file.rows |->
        [f \in Range(file.header) |->
            LET c == CHOOSE j \in DOMAIN file.header :
                         /\ file.header[j] = f
                         /\ \A k \in DOMAIN file.header :
                                file.header[k] = f => k <= j
            IN  IF c <= Len(file.rows[r]) THEN Str(file.rows[r][c])
                ELSE PyNone]]

\* an emptiness test that never fires
IsEmptyContentNever(file) == FALSE

\* `not decoded_content.strip()`
IsEmptyContent(file) == file.header = <<>> /\ file.rows = <<>>

\* src/app/database.py: required_columns.issubset(csv_reader.fieldnames)
HeaderAcceptedApp(file) == {"id", "name"} \subseteq Range(file.header)

\* src/database.py: fieldnames is expected_header, alone or followed by the
\* two check-in columns
HeaderAcceptedRoot(file) ==
    \/ file.header = expected_header
    \/ file.header = expected_header \o CheckInColumns

\* src/app/database.py: the document staged for one row
DocumentApp(row) ==
    [f \in {"id", "name", "check_in", "checked_in_at"} |->
        CASE f = "id" -> row["id"]
          [] f = "name" -> row["name"]
          [] f = "check_in" -> Get(row, "check_in", PyBool(FALSE))
          [] OTHER -> Get(row, "checked_in_at", PyNone)]

\* src/database.py: the document staged for one row
DocumentRoot(row) ==
    [f \in Range(expected_header) \cup Range(CheckInColumns) |->
        CASE f = "check_in" -> PyOr(Get(row, "check_in", Str("")), PyBool(FALSE))
          [] f = "checked_in_at" -> PyOr(Get(row, "checked_in_at", Str("")), PyNone)
          [] OTHER -> row[f]]

\* src/app/database.py: `documents`, one per row, in input order
DocumentsApp(file) ==
    LET rows == DictReader(file)
    IN  [r \in DOMAIN rows |-> DocumentApp(rows[r])]

RECURSIVE StagedUnfiltered(_, _, _)
\* the staging loop without its `continue`: every row is staged
StagedUnfiltered(rows, r, existing) ==
    IF r > Len(rows) THEN <<>>
    ELSE <<DocumentRoot(rows[r])>> \o StagedUnfiltered(rows, r + 1, existing)

RECURSIVE Staged(_, _, _)
\* src/database.py: `documents`, the rows whose nim is not in
\* existing_nims_set, in input order
Staged(rows, r, existing) ==
    IF r > Len(rows) THEN <<>>
    ELSE IF rows[r]["nim"] \in existing
         THEN Staged(rows, r + 1, existing)
         ELSE <<DocumentRoot(rows[r])>> \o Staged(rows, r + 1, existing)

DocumentsRoot(file, existing) == Staged(DictReader(file), 1, existing)

(***************************************************************************)
(* Exported files.                                                         *)
(***************************************************************************)
\* the row export_csv writes first
ExportHeader(v) == BaseHeader(v) \o CheckInColumns

\* csv.writer: a str is written as it is, None as the empty string, any
\* other value as str(value)
Cell(v) ==
    CASE v[1] = "str" -> v[2]
      [] v[1] = "bool" -> IF v[2] THEN "True" ELSE "False"
      [] v[1] = "none" -> ""
      [] OTHER -> "?"

\* a row made of the values the entry has, the missing ones left out
ExportRowPresentOnly(v, entry) ==
    LET present == SelectSeq(ExportHeader(v), LAMBDA f : f \in DOMAIN entry)
    IN  [c \in DOMAIN present |-> Cell(entry[present[c]])]

\* the row written for one entry: entry.get(column, "") per column
ExportRow(v, entry) ==
    [c \in DOMAIN ExportHeader(v) |->
        Cell(Get(entry, ExportHeader(v)[c], Str("")))]

\* export_csv: the header row, then one row per entry of find({}), served
\* as text/csv
export_csv(v, entries) ==
    [content_type |-> "text/csv",
     header |-> ExportHeader(v),
     rows |-> [i \in DOMAIN entries |-> ExportRow(v, entries[i])]]

\* the StringIO a handler returns
StringIO(file) == <<"StringIO", file>>

(***************************************************************************)
(* The inputs the model draws from.                                        *)
(***************************************************************************)
Keys == {"A1", "B2"}

\* an upload without check-in columns; rs lists (key, name) per row
PlainFile(v, rs) ==
    [content_type |-> "text/csv",
     header |-> BaseHeader(v),
     rows |-> [r \in DOMAIN rs |-> BaseCells(v, rs[r][1], rs[r][2])]]

\* an upload with them; rs lists (key, name, check_in, checked_in_at)
ColumnFile(v, rs) ==
    [content_type |-> "text/csv",
     header |-> BaseHeader(v) \o CheckInColumns,
     rows |-> [r \in DOMAIN rs |->
                  BaseCells(v, rs[r][1], rs[r][2]) \o <<rs[r][3], rs[r][4]>>]]

EmptyFile == [content_type |-> "text/csv", header |-> <<>>, rows |-> <<>>]

MissingNameFile ==
    [content_type |-> "text/csv", header |-> <<"id", "foo">>,
     rows |-> <<<<"A1", "x">>>>]

NotCsvFile ==
    [content_type |-> "application/json", header |-> <<"id", "name">>,
     rows |-> <<<<"A1", "Alice">>>>]

\* one participant; two participants; a participant renamed; one key in
\* two rows; a row with empty check-in cells; a roster as export writes it
Files(v) ==
    {PlainFile(v, <<<<"A1", "Alice">>>>),
     PlainFile(v, <<<<"A1", "Alice">>, <<"B2", "Bob">>>>),
     PlainFile(v, <<<<"B2", "Bob">>, <<"B2", "Bobby">>>>),
     ColumnFile(v, <<<<"A1", "Alice", "", "">>>>),
     ColumnFile(v, <<<<"A1", "Alice", "True", "2023-12-31T23:59:59+07:00">>,
                     <<"B2", "Bob", "False", "">>>>),
     EmptyFile, MissingNameFile, NotCsvFile}

NoFile == [content_type |-> "", header |-> <<>>, rows |-> <<>>]

(***************************************************************************)
(* State.                                                                  *)
(***************************************************************************)
VARIABLES
    variant,    \* the deployment: "app" or "root"
    store,      \* the documents of DB.entry
    now,        \* readings of the wall clock so far
    storeUp,    \* FALSE while store calls raise ConnectionError/OperationFailure
    pc,         \* per request slot: the await the coroutine is suspended at
    call,       \* per request slot: the handler called and its entry_id
    local,      \* per request slot: the upload and the coroutine's locals
    result,     \* per request slot: what the last call returned or raised
    prev,       \* history of a lone client: its latest call, and the one before
    oplog,      \* the changes of DB.entry a change stream can see, in commit order
    sessions    \* per websocket client: its connection and its watch_entries

vars == <<variant, store, now, storeUp, pc, call, local, result, prev,
          oplog, sessions>>

NoCall == [op |-> "none", id |-> PyNone]
NoLocal == [file |-> NoFile, docs |-> <<>>, i |-> 0, time |-> PyNone]
NoHistory ==
    [op |-> "none", id |-> PyNone, file |-> NoFile, store |-> <<>>,
     same |-> FALSE, kind |-> "none", lastop |-> "none", lastid |-> PyNone]
NoResult == [kind |-> "none", val |-> PyNone]

\* a websocket client of /update that has not connected.  state is where
\* update_websocket stands: "none", "accepted" (websocket.accept() done,
\* the change stream not yet open), "waiting" (in `async for change in
\* stream`), "reading" (awaiting find_one for `change`), "ended".  open: the
\* connection is up.  since: the feed's length when the connection was
\* accepted.  pos: the next feed position the stream's cursor reads.
\* change: the position of the change being handled, 0 between changes.
\* sent: the texts the client has received, each with the clusterTime of
\* the change it answers (0 for an error report).
NoSession ==
    [state |-> "none", open |-> FALSE, since |-> 0, pos |-> 0, change |-> 0,
     sent |-> <<>>]

\* a client is connected or a change stream is open: the feed is read, or
\* may be read, by somebody
Watched ==
    \E s \in Subs : sessions[s].state \in {"accepted", "waiting", "reading"}

\* a write commits: the collection becomes coll and the feed records the
\* changes (the feed is not kept while nobody can read it)
Write(coll) ==
    /\ store' = coll
    /\ oplog' = IF Watched THEN oplog \o ChangesFrom(store, coll, 1) ELSE oplog

\* what a handler hands back: a return value, or the exception it raises
Return(v) == [kind |-> "ok", val |-> v]
ValueError(msg) == [kind |-> "ValueError", val |-> Str(msg)]
RuntimeError(msg) == [kind |-> "RuntimeError", val |-> Str(msg)]
HTTPException(detail) == [kind |-> "HTTPException", val |-> Str(detail)]

\* the argument that selects "every entry": "all" (app), None (root)
ResetAllArg(v) == IF v = "app" THEN Str("all") ELSE PyNone

\* src/app/database.py: `entry_id != "all"`; src/database.py: `if entry_id:`
IsSingleReset(v, id) == IF v = "app" THEN id /= Str("all") ELSE Truthy(id)

CheckedInFields(time) ==
    [f \in {"check_in", "checked_in_at"} |->
        IF f = "check_in" THEN PyBool(TRUE) ELSE time]

\* a reset that clears the flag and forgets the timestamp
ResetFieldsFlagOnly == [f \in {"check_in"} |-> PyBool(FALSE)]

ResetFields ==
    [f \in {"check_in", "checked_in_at"} |->
        IF f = "check_in" THEN PyBool(FALSE) ELSE PyNone]

Init ==
    /\ variant \in {"app", "root"}
    /\ store = <<>>
    /\ now = 0
    /\ storeUp = TRUE
    /\ pc = [p \in Procs |-> "idle"]
    /\ call = [p \in Procs |-> NoCall]
    /\ local = [p \in Procs |-> NoLocal]
    /\ result = [p \in Procs |-> NoResult]
    /\ prev = NoHistory
    /\ oplog = <<>>
    /\ sessions = [s \in Subs |-> NoSession]

(***************************************************************************)
(* Bookkeeping shared by the handlers.                                     *)
(***************************************************************************)
\* a request for handler op arrives at slot p.  With hist the history is
\* kept: the call, the store it finds, whether the slot's previous call was
\* the same call, how that one ended, and which call it was.
Begin(p, op, id, file, hist) ==
    /\ pc[p] = "idle"
    /\ call' = [call EXCEPT ![p] = [op |-> op, id |-> id]]
    /\ IF hist
       THEN prev' = [op |-> op, id |-> id, file |-> file, store |-> store,
                     same |-> (prev.op = op /\ prev.id = id /\ prev.file = file),
                     kind |-> result[p].kind,
                     lastop |-> call[p].op, lastid |-> call[p].id]
       ELSE UNCHANGED prev

\* the coroutine of slot p suspends at the await named `at`
Suspend(p, at, l) ==
    /\ pc' = [pc EXCEPT ![p] = at]
    /\ local' = [local EXCEPT ![p] = l]
    /\ result' = [result EXCEPT ![p] = NoResult]

\* the coroutine of slot p returns or raises
Finish(p, res) ==
    /\ pc' = [pc EXCEPT ![p] = "idle"]
    /\ local' = [local EXCEPT ![p] = NoLocal]
    /\ result' = [result EXCEPT ![p] = res]

\* documents the import in flight at slot p may still insert
KeysOf(docs, field) == {docs[i][field] : i \in DOMAIN docs}

MayInsert(p) ==
    CASE pc[p] = "import_upsert" ->
            Cardinality(KeysOf(SubSeq(local[p].docs, local[p].i, Len(local[p].docs)), "id")
                        \ distinct(store, "id"))
      [] pc[p] = "import_distinct" ->
            Len(DocumentsRoot(local[p].file, distinct(store, "nim")))
      [] pc[p] = "import_insert" -> Len(local[p].docs)
      [] OTHER -> 0

RECURSIVE SumMayInsert(_)
SumMayInsert(n) == IF n = 0 THEN 0 ELSE MayInsert(n) + SumMayInsert(n - 1)

\* documents an upload would insert into the store as it is now
WouldInsert(file) ==
    IF file.content_type /= "text/csv" \/ IsEmptyContent(file) THEN 0
    ELSE IF variant = "app"
         THEN IF HeaderAcceptedApp(file)
              THEN Cardinality(KeysOf(DocumentsApp(file), "id") \ distinct(store, "id"))
              ELSE 0
         ELSE IF HeaderAcceptedRoot(file)
              THEN Len(DocumentsRoot(file, distinct(store, "nim")))
              ELSE 0

(***************************************************************************)
(* import_csv                                                              *)
(***************************************************************************)
\* src/app/main.py import_csv up to the first store call of
\* src/app/database.py import_csv
StartImportApp(p, file) ==
    IF file.content_type /= "text/csv"
    THEN Finish(p, HTTPException("File must be a CSV"))
    ELSE IF IsEmptyContent(file)
    THEN Finish(p, ValueError("Empty file"))
    ELSE IF ~HeaderAcceptedApp(file)
    THEN Finish(p, ValueError("Missing required columns id and/or name"))
    ELSE IF Len(DocumentsApp(file)) = 0
    THEN Finish(p, Return(PyInt(0)))
    ELSE Suspend(p, "import_upsert",
                 [file |-> file, docs |-> DocumentsApp(file), i |-> 1,
                  time |-> PyNone])

\* src/main.py import_csv up to the first store call of src/database.py
\* import_csv
StartImportRoot(p, file) ==
    IF file.content_type /= "text/csv"
    THEN Finish(p, HTTPException("File must be a CSV"))
    ELSE IF IsEmptyContent(file)
    THEN Finish(p, ValueError("Empty file"))
    ELSE IF ~HeaderAcceptedRoot(file)
    THEN Finish(p, ValueError("Invalid file format"))
    ELSE Suspend(p, "import_distinct", [NoLocal EXCEPT !.file = file])

StartImport(p, file, hist) ==
    /\ Len(store) + SumMayInsert(NProcs) + WouldInsert(file) <= MaxDocs
    /\ Begin(p, "import", PyNone, file, hist)
    /\ IF variant = "app" THEN StartImportApp(p, file) ELSE StartImportRoot(p, file)
    /\ UNCHANGED <<variant, store, now, storeUp, oplog, sessions>>

\* src/app/database.py: one turn of `for doc in documents: await update_one`
ImportUpsert(p) ==
    /\ pc[p] = "import_upsert"
    /\ IF ~storeUp
       THEN /\ Finish(p, RuntimeError("Database insertion error"))
            /\ UNCHANGED <<store, oplog>>
       ELSE LET doc == local[p].docs[local[p].i]
            IN  /\ Write(update_one(store, "id", doc["id"], doc, TRUE))
                /\ IF local[p].i = Len(local[p].docs)
                   THEN Finish(p, Return(PyInt(Len(local[p].docs))))
                   ELSE Suspend(p, "import_upsert",
                                [local[p] EXCEPT !.i = local[p].i + 1])
    /\ UNCHANGED <<variant, now, storeUp, call, prev, sessions>>

\* src/database.py: `await DB.entry.distinct("nim")` and the staging loop
ImportDistinct(p) ==
    /\ pc[p] = "import_distinct"
    /\ IF ~storeUp
       THEN Finish(p, RuntimeError("Database query error"))
       ELSE LET documents == DocumentsRoot(local[p].file, distinct(store, "nim"))
            IN  IF Len(documents) = 0
                THEN Finish(p, Return(PyInt(0)))
                ELSE Suspend(p, "import_insert",
                             [local[p] EXCEPT !.docs = documents])
    /\ UNCHANGED <<variant, store, now, storeUp, call, prev, oplog, sessions>>

\* src/database.py: `await DB.entry.insert_many(documents)`
ImportInsertMany(p) ==
    /\ pc[p] = "import_insert"
    /\ IF ~storeUp
       THEN /\ Finish(p, RuntimeError("Database insertion error"))
            /\ UNCHANGED <<store, oplog>>
       ELSE /\ Write(insert_many(store, local[p].docs))
            /\ Finish(p, Return(PyInt(Len(local[p].docs))))
    /\ UNCHANGED <<variant, now, storeUp, call, prev, sessions>>


(***************************************************************************)
(* check_in                                                                *)
(***************************************************************************)
\* the request arrives; the handler awaits find_one
StartCheckIn(p, id, hist) ==
    /\ now + Cardinality({q \in Procs : pc[q] = "checkin_find"}) < MaxClock
    /\ Begin(p, "check_in", id, NoFile, hist)
    /\ Suspend(p, "checkin_find", NoLocal)
    /\ UNCHANGED <<variant, store, now, storeUp, oplog, sessions>>

\* src/app/database.py: find_one answers; `if not entry`, the
\* already-checked-in test, and the reading of the clock
CheckInFindApp(p) ==
    LET entry == find_one(store, "id", call[p].id)
    IN  IF DOMAIN entry = {}
        THEN Finish(p, ValueError("ID not found")) /\ UNCHANGED now
        ELSE IF Truthy(Get(entry, "check_in", PyBool(FALSE)))
        THEN Finish(p, ValueError("Already checked in")) /\ UNCHANGED now
        ELSE /\ now' = now + 1
             /\ Suspend(p, "checkin_update",
                        [NoLocal EXCEPT !.time = isoformat(now + 1)])

\* src/database.py: find_one answers; `if not entry` and the reading of
\* the clock
CheckInFindRoot(p) ==
    LET entry == find_one(store, "nim", call[p].id)
    IN  IF DOMAIN entry = {}
        THEN Finish(p, ValueError("ID not found")) /\ UNCHANGED now
        ELSE /\ now' = now + 1
             /\ Suspend(p, "checkin_update",
                        [NoLocal EXCEPT !.time = isoformat(now + 1)])

CheckInFind(p) ==
    /\ pc[p] = "checkin_find"
    /\ IF ~storeUp
       THEN Finish(p, RuntimeError("Database query error")) /\ UNCHANGED now
       ELSE IF variant = "app" THEN CheckInFindApp(p) ELSE CheckInFindRoot(p)
    /\ UNCHANGED <<variant, store, storeUp, call, prev, oplog, sessions>>

\* `await DB.entry.update_one(..., {"$set": {"check_in": True,
\* "checked_in_at": time}})`, then `return time`
CheckInUpdate(p) ==
    /\ pc[p] = "checkin_update"
    /\ IF ~storeUp
       THEN /\ Finish(p, RuntimeError("Database update error"))
            /\ UNCHANGED <<store, oplog>>
       ELSE /\ Write(update_one(store, KeyField(variant), call[p].id,
                             CheckedInFields(local[p].time), FALSE))
            /\ Finish(p, Return(local[p].time))
    /\ UNCHANGED <<variant, now, storeUp, call, prev, sessions>>

(***************************************************************************)
(* reset_check_in                                                          *)
(***************************************************************************)
ResetArgs(v) == {Str(k) : k \in Keys} \cup {ResetAllArg(v)}

\* the request arrives; the handler awaits find_one or update_many
StartReset(p, id, hist) ==
    /\ Begin(p, "reset", id, NoFile, hist)
    /\ IF IsSingleReset(variant, id)
       THEN Suspend(p, "reset_find", NoLocal)
       ELSE Suspend(p, "reset_all", NoLocal)
    /\ UNCHANGED <<variant, store, now, storeUp, oplog, sessions>>

\* find_one answers; `if not entry`
ResetFind(p) ==
    /\ pc[p] = "reset_find"
    /\ IF ~storeUp
       THEN Finish(p, RuntimeError("Database query error"))
       ELSE IF DOMAIN find_one(store, KeyField(variant), call[p].id) = {}
       THEN Finish(p, ValueError("ID not found"))
       ELSE Suspend(p, "reset_update", NoLocal)
    /\ UNCHANGED <<variant, store, now, storeUp, call, prev, oplog, sessions>>

\* `await DB.entry.update_one(..., {"$set": {"check_in": False,
\* "checked_in_at": None}})`, then `return 1`
ResetUpdate(p) ==
    /\ pc[p] = "reset_update"
    /\ IF ~storeUp
       THEN /\ Finish(p, RuntimeError("Database update error"))
            /\ UNCHANGED <<store, oplog>>
       ELSE /\ Write(update_one(store, KeyField(variant), call[p].id,
                             ResetFields, FALSE))
            /\ Finish(p, Return(PyInt(1)))
    /\ UNCHANGED <<variant, now, storeUp, call, prev, sessions>>

\* `await DB.entry.update_many({}, ...)`, then `return result.modified_count`
ResetAll(p) ==
    /\ pc[p] = "reset_all"
    /\ IF ~storeUp
       THEN /\ Finish(p, RuntimeError("Database update error"))
            /\ UNCHANGED <<store, oplog>>
       ELSE /\ Write(update_many(store, ResetFields))
            /\ Finish(p, Return(PyInt(modified_count(store, ResetFields))))
    /\ UNCHANGED <<variant, now, storeUp, call, prev, sessions>>

(***************************************************************************)
(* export_csv                                                              *)
(***************************************************************************)
\* the request arrives; the handler awaits find({}).to_list
StartExport(p, hist) ==
    /\ Begin(p, "export", PyNone, NoFile, hist)
    /\ Suspend(p, "export_find", NoLocal)
    /\ UNCHANGED <<variant, store, now, storeUp, oplog, sessions>>

\* the entries arrive; the rows are written and the StringIO is returned
ExportFind(p) ==
    /\ pc[p] = "export_find"
    /\ IF ~storeUp
       THEN Finish(p, RuntimeError("Database query error"))
       ELSE Finish(p, Return(StringIO(export_csv(variant, store))))
    /\ UNCHANGED <<variant, store, now, storeUp, call, prev, oplog, sessions>>

\* the client uploads the file its export has just returned
StartReImport(p, hist) ==
    /\ pc[p] = "idle" /\ call[p].op = "export" /\ result[p].kind = "ok"
    /\ StartImport(p, result[p].val[2], hist)

(***************************************************************************)
(* update_websocket and watch_entries                                      *)
(***************************************************************************)
\* the handler's frame: a session step touches the session alone
SessionStep(s, sess) ==
    /\ sessions' = [sessions EXCEPT ![s] = sess]
    /\ UNCHANGED <<variant, store, now, storeUp, pc, call, local, result,
                   prev, oplog>>

\* an except block that reports the error and leaves the connection open
ReportAndStayOpen(sess, msg) ==
    [sess EXCEPT !.state = "ended", !.change = 0,
                 !.sent = Append(@, [clusterTime |-> 0,
                                     text |-> json_dumps([error |-> Str(msg)])])]

\* src/app/main.py update_websocket, `except Exception as e`: the change
\* stream is released on the way out of `async with`; the error is sent to
\* this websocket, which is then closed.  On a connection the client has
\* closed send_text raises and the handler ends there.
Report(sess, msg) ==
    IF sess.open
    THEN [sess EXCEPT !.state = "ended", !.open = FALSE, !.change = 0,
                      !.sent = Append(@, [clusterTime |-> 0,
                                          text |-> json_dumps([error |-> Str(msg)])])]
    ELSE [sess EXCEPT !.state = "ended", !.change = 0]

\* a client connects to /update: `await websocket.accept()`.  Clients are
\* numbered in the order they connect.
Connect(s) ==
    /\ sessions[s].state = "none"
    /\ \A t \in 1..(s - 1) : sessions[t].state /= "none"
    /\ SessionStep(s, [NoSession EXCEPT !.state = "accepted", !.open = TRUE,
                                        !.since = Len(oplog)])

\* `async with DB.entry.watch(pipeline) as stream`: the stream yields the
\* changes committed from now on
OpenWatch(s) ==
    /\ sessions[s].state = "accepted"
    /\ SessionStep(s, [sessions[s] EXCEPT !.state = "waiting",
                                          !.pos = Len(oplog) + 1])

\* the feed positions the stream of session s has still to yield
Pending(s) ==
    {n \in sessions[s].pos..Len(oplog) : pipeline(oplog[n])}

\* `async for change in stream` yields the next change; the handler
\* awaits find_one
NextChange(s) ==
    /\ sessions[s].state = "waiting"
    /\ Pending(s) /= {}
    /\ LET n == CHOOSE m \in Pending(s) : \A k \in Pending(s) : m <= k
       IN  SessionStep(s, [sessions[s] EXCEPT !.state = "reading",
                                              !.change = n, !.pos = n + 1])

\* find_one({"_id": document_id}) answers with the document as it is now;
\* `if entry:` it is sent without its _id
ReadAndSend(s) ==
    /\ sessions[s].state = "reading"
    /\ LET sess == sessions[s]
           entry == find_one(store, "_id", oplog[sess.change].documentKey)
       IN  IF DOMAIN entry = {}
           THEN SessionStep(s, [sess EXCEPT !.state = "waiting", !.change = 0])
           ELSE IF sess.open
           THEN SessionStep(s,
                    [sess EXCEPT !.state = "waiting", !.change = 0,
                                 !.sent = Append(@, [clusterTime |-> sess.change,
                                                     text |-> json_dumps(pop_id(entry))])])
           ELSE SessionStep(s, Report(sess, "WebSocketDisconnect"))

\* the client closes its connection; nothing in watch_entries awaits it
ClientCloses(s) ==
    /\ sessions[s].open
    /\ sessions[s].state \in {"accepted", "waiting", "reading"}
    /\ SessionStep(s, [sessions[s] EXCEPT !.open = FALSE])

\* the change stream raises while the handler waits for its next change
FeedFails(s) ==
    /\ sessions[s].state = "waiting"
    /\ SessionStep(s, Report(sessions[s], "OperationFailure"))

(***************************************************************************)
(* Specifications.                                                         *)
(***************************************************************************)
\* a request arrives at slot p
Arrive(p, hist) ==
    \/ \E file \in Files(variant) : StartImport(p, file, hist)
    \/ \E k \in Keys : StartCheckIn(p, Str(k), hist)
    \/ \E id \in ResetArgs(variant) : StartReset(p, id, hist)

\* a suspended coroutine resumes
Resume(p) ==
    \/ ImportUpsert(p)
    \/ ImportDistinct(p)
    \/ ImportInsertMany(p)
    \/ CheckInFind(p)
    \/ CheckInUpdate(p)
    \/ ResetFind(p)
    \/ ResetUpdate(p)
    \/ ResetAll(p)

\* requests overlap freely
Next == \E p \in Procs : Arrive(p, FALSE) \/ Resume(p)

Spec == Init /\ [][Next]_vars

\* one client, one request at a time: the next request arrives when the
\* response to the previous one is back
NextSeq ==
    \/ Arrive(1, TRUE)
    \/ StartExport(1, TRUE)
    \/ StartReImport(1, TRUE)
    \/ Resume(1)
    \/ ExportFind(1)

SpecSeq == Init /\ [][NextSeq]_vars

\* the upload of the runs with websocket clients: a participant inserted
\* by the first row and renamed by the second
WatchFiles == {PlainFile("app", <<<<"B2", "Bob">>, <<"B2", "Bobby">>>>)}

\* a request of the lone client arrives while the feed has room
ArriveWatch ==
    /\ Len(oplog) < MaxOplog
    /\ \/ \E file \in WatchFiles : StartImport(1, file, FALSE)
       \/ \E k \in Keys : StartCheckIn(1, Str(k), FALSE)
       \/ \E id \in ResetArgs(variant) : StartReset(1, id, FALSE)

\* a step of the websocket handler of client s, or of the client itself
Session(s) ==
    \/ Connect(s)
    \/ OpenWatch(s)
    \/ NextChange(s)
    \/ ReadAndSend(s)
    \/ ClientCloses(s)
    \/ FeedFails(s)

\* the suspended coroutine of the lone client resumes (src/app handlers)
ResumeWatch ==
    \/ ImportUpsert(1)
    \/ CheckInFind(1)
    \/ CheckInUpdate(1)
    \/ ResetFind(1)
    \/ ResetUpdate(1)
    \/ ResetAll(1)

\* src/app/main.py alone has the /update endpoint
InitWatch == Init /\ variant = "app"

\* one client of the HTTP endpoints, and the websocket clients
NextWatch == ArriveWatch \/ ResumeWatch \/ \E s \in Subs : Session(s)

SpecWatch == InitWatch /\ [][NextWatch]_vars

\* a complete document of the deployment, as its handlers leave one
Entry(v, k, n, flag, at) ==
    [f \in Range(ExportHeader(v)) |->
        CASE f = "check_in" -> flag
          [] f = "checked_in_at" -> at
          [] OTHER ->
               LET c == CHOOSE j \in DOMAIN BaseHeader(v) : BaseHeader(v)[j] = f
               IN  Str(BaseCells(v, k, n)[c])]

\* entry without the attributes outside `fields`
Only(entry, fields) == [f \in DOMAIN entry \cap fields |-> entry[f]]

\* documents DB.entry may hold when the collection was also written by
\* other tools or an earlier schema: complete ones, one with its key
\* alone, one without key and check-in attributes
ForeignEntries(v) ==
    {Entry(v, "A1", "Alice", PyBool(FALSE), PyNone),
     Entry(v, "B2", "Bob", PyBool(TRUE), Str("2023-12-31T23:59:59+07:00")),
     Only(Entry(v, "A1", "Alice", PyBool(FALSE), PyNone), {KeyField(v)}),
     Only(Entry(v, "B2", "Carol", PyBool(FALSE), PyNone), {"name"})}

\* the collections of at most MaxEntries such documents, each under the
\* _id of its position
ForeignStores(v) ==
    UNION {[1..n -> ForeignEntries(v)] : n \in 0..MaxEntries}

WithIds(entries) ==
    [i \in DOMAIN entries |->
        ApplySet(entries[i], [f \in {"_id"} |-> ObjectId(i)])]

\* the service starts on a collection it has not filled itself
InitExport ==
    /\ variant \in {"app", "root"}
    /\ \E entries \in ForeignStores(variant) : store = WithIds(entries)
    /\ now = 0
    /\ storeUp = TRUE
    /\ pc = [p \in Procs |-> "idle"]
    /\ call = [p \in Procs |-> NoCall]
    /\ local = [p \in Procs |-> NoLocal]
    /\ result = [p \in Procs |-> NoResult]
    /\ prev = NoHistory
    /\ oplog = <<>>
    /\ sessions = [s \in Subs |-> NoSession]

\* slot 1 exports while slot 2 checks in and resets
NextExport ==
    \/ StartExport(1, FALSE)
    \/ ExportFind(1)
    \/ \E k \in Keys : StartCheckIn(2, Str(k), FALSE)
    \/ CheckInFind(2)
    \/ CheckInUpdate(2)
    \/ \E id \in ResetArgs(variant) : StartReset(2, id, FALSE)
    \/ ResetFind(2)
    \/ ResetUpdate(2)
    \/ ResetAll(2)

SpecExport == InitExport /\ [][NextExport]_vars

\* the uploads of the runs on padded cells: a participant, and a roster
\* whose first row is that participant with blanks around key and name
TrimFiles ==
    {PlainFile("root", <<<<"A1", "Alice">>>>),
     PlainFile("root", <<<<" A1", "Alice ">>, <<"B2", "Bob">>>>)}

\* src/database.py is the deployment with the insert-only import
InitTrim == Init /\ variant = "root"

\* one client of the insert-only deployment
NextTrim ==
    \/ \E file \in TrimFiles : StartImport(1, file, TRUE)
    \/ ImportDistinct(1)
    \/ ImportInsertMany(1)
    \/ \E k \in Keys : StartCheckIn(1, Str(k), TRUE)
    \/ CheckInFind(1)
    \/ CheckInUpdate(1)
    \/ \E id \in ResetArgs(variant) : StartReset(1, id, TRUE)
    \/ ResetFind(1)
    \/ ResetUpdate(1)
    \/ ResetAll(1)

SpecTrim == InitTrim /\ [][NextTrim]_vars

\* the store goes down: its calls raise ConnectionError / OperationFailure
StoreFails ==
    /\ storeUp /\ storeUp' = FALSE
    /\ UNCHANGED <<variant, store, now, pc, call, local, result, prev,
                   oplog, sessions>>

\* the store is back
StoreRecovers ==
    /\ ~storeUp /\ storeUp' = TRUE
    /\ UNCHANGED <<variant, store, now, pc, call, local, result, prev,
                   oplog, sessions>>

\* one client, and a store that may fail between any two calls
NextFail == NextSeq \/ StoreFails \/ StoreRecovers

SpecFail == Init /\ [][NextFail]_vars

(***************************************************************************)
(* The transport's view of check_in.                                       *)
(***************************************************************************)
\* src/app/main.py check_in: the response made of the handler's outcome;
\* custom_http_exception_handler puts an HTTPException's detail under
\* "message"
CheckInResponse(res) ==
    CASE res.kind = "ok" ->
            [status_code |-> 200, message |-> Str("ok"), time |-> res.val]
      [] res.kind = "ValueError" ->
            [status_code |-> 404, message |-> res.val, time |-> PyNone]
      [] OTHER ->
            [status_code |-> 500, message |-> res.val, time |-> PyNone]

(***************************************************************************)
(* Vocabulary of the properties.                                           *)
(***************************************************************************)
\* the participant's key, whatever the deployment calls the field
KeyOf(doc) == doc[KeyField(variant)]

\* the record counts as checked in: the test check_in itself applies
CheckedIn(doc) == Truthy(Get(doc, "check_in", PyBool(FALSE)))

HasTimestamp(doc) == Get(doc, "checked_in_at", PyNone) /= PyNone

\* slot p holds a finished call of handler op
Finished(p, op) == pc[p] = "idle" /\ call[p].op = op

\* slot p is past every failing test of check_in: only the write is left
AboutToCheckIn(p) == pc[p] = "checkin_update"

(***************************************************************************)
(* C1.  Two check_in(id) calls that run concurrently on a participant that *)
(* is in the store and not checked in never both succeed: at most one of   *)
(* them gets past the tests and returns a timestamp, the other fails with  *)
(* "Already checked in".                                                   *)
(***************************************************************************)
C1_AtMostOneConcurrentSuccess ==
    \A p, q \in Procs :
        (/\ p /= q
         /\ call[p].op = "check_in" /\ call[q].op = "check_in"
         /\ call[p].id = call[q].id
         /\ \E i \in DOMAIN store :
                KeyOf(store[i]) = call[p].id /\ ~CheckedIn(store[i])
         /\ AboutToCheckIn(p))
        => ~AboutToCheckIn(q)

(***************************************************************************)
(* C2.  check_in(id) called twice in sequence, with no other call between, *)
(* on a participant that was not checked in: the first call returns a      *)
(* timestamp and the second fails with "Already checked in".               *)
(***************************************************************************)
C2_SecondCheckInConflicts ==
    (/\ Finished(1, "check_in")
     /\ prev.op = "check_in" /\ prev.same /\ prev.kind = "ok")
    => result[1] = ValueError("Already checked in")

(***************************************************************************)
(* C3.  In every reachable store, every record has check_in true if and    *)
(* only if its checked_in_at is not null.                                  *)
(***************************************************************************)
C3_CheckedInIffTimestamp ==
    \A i \in DOMAIN store : CheckedIn(store[i]) <=> HasTimestamp(store[i])

NoCheckInColumns(file) == Range(file.header) \cap Range(CheckInColumns) = {}

(***************************************************************************)
(* C4.  An import of a batch without check-in columns that carries the key *)
(* of a checked-in record leaves that record's check_in and checked_in_at  *)
(* as they were: only a reset takes a record out of the checked-in state.  *)
(***************************************************************************)
C4_ImportKeepsCheckedIn ==
    (/\ Finished(1, "import") /\ result[1].kind = "ok"
     /\ NoCheckInColumns(prev.file))
    => \A i \in DOMAIN prev.store :
           prev.store[i]["check_in"] = PyBool(TRUE)
           => /\ i \in DOMAIN store
              /\ store[i]["check_in"] = prev.store[i]["check_in"]
              /\ store[i]["checked_in_at"] = prev.store[i]["checked_in_at"]

RepeatedImport ==
    /\ variant = "app"
    /\ Finished(1, "import") /\ result[1].kind = "ok"
    /\ prev.same /\ prev.kind = "ok"

(***************************************************************************)
(* C5.  Upsert policy: importing a batch a second time, right after it was *)
(* imported, leaves the store as the first import left it.                 *)
(***************************************************************************)
C5_UpsertImportIdempotent == RepeatedImport => store = prev.store

C5_Witness ==
    /\ RepeatedImport
    /\ Len(prev.file.rows) = 2
    /\ prev.file.rows[1][1] = prev.file.rows[2][1]
    /\ prev.file.rows[1][2] /= prev.file.rows[2][2]
    /\ Len(store) = 2

RowKey(file, r) == Str(file.rows[r][1])
RowName(file, r) == Str(file.rows[r][2])

FreshRows(file, old) ==
    {r \in DOMAIN file.rows :
        \A i \in DOMAIN old : KeyOf(old[i]) /= RowKey(file, r)}

InsertOnlyImportDone ==
    variant = "root" /\ Finished(1, "import") /\ result[1].kind = "ok"

(***************************************************************************)
(* C6.  Insert-only policy: an import returns the number of rows whose key *)
(* was not in the store, appends one record for each of those rows and for *)
(* no other, and leaves every record that was there as it was.             *)
(***************************************************************************)
C6_InsertOnlyCountsAndKeeps ==
    InsertOnlyImportDone
    => LET fresh == FreshRows(prev.file, prev.store)
           added == (Len(prev.store) + 1)..Len(store)
       IN  /\ result[1].val = PyInt(Cardinality(fresh))
           /\ Len(store) = Len(prev.store) + Cardinality(fresh)
           /\ \A i \in DOMAIN prev.store : store[i] = prev.store[i]
           /\ \A j \in added : \E r \in fresh :
                  /\ KeyOf(store[j]) = RowKey(prev.file, r)
                  /\ store[j]["name"] = RowName(prev.file, r)
           /\ \A r \in fresh : \E j \in added :
                  /\ KeyOf(store[j]) = RowKey(prev.file, r)
                  /\ store[j]["name"] = RowName(prev.file, r)

\* one new key, one key of a checked-in record: the count is 1
C6_Witness ==
    /\ InsertOnlyImportDone
    /\ Len(prev.file.rows) = 2
    /\ Cardinality(FreshRows(prev.file, prev.store)) = 1
    /\ result[1].val = PyInt(1)
    /\ \E i \in DOMAIN prev.store :
           /\ CheckedIn(prev.store[i])
           /\ KeyOf(prev.store[i]) = RowKey(prev.file, 1)

(***************************************************************************)
(* C7.  In every reachable store no two records have the same participant  *)
(* id.                                                                     *)
(***************************************************************************)
C7_OneRecordPerId ==
    \A i, j \in DOMAIN store : KeyOf(store[i]) = KeyOf(store[j]) => i = j

(***************************************************************************)
(* C8.  A check-in refused because the participant is already checked in   *)
(* reaches the caller with an error kind or a status other than those of a *)
(* check-in refused because the id does not exist.                         *)
(***************************************************************************)
C8_ConflictDistinctFromNotFound ==
    \A p, q \in Procs :
        (/\ Finished(p, "check_in") /\ Finished(q, "check_in")
         /\ result[p] = ValueError("Already checked in")
         /\ result[q] = ValueError("ID not found"))
        => \/ result[p].kind /= result[q].kind
           \/ CheckInResponse(result[p]).status_code
                 /= CheckInResponse(result[q]).status_code

SingleResetDone == Finished(1, "reset") /\ IsSingleReset(variant, call[1].id)

\* new is old with both check-in fields cleared and nothing else touched
ClearedCopy(old, new) ==
    /\ DOMAIN new = DOMAIN old
    /\ new["check_in"] = PyBool(FALSE)
    /\ new["checked_in_at"] = PyNone
    /\ \A f \in DOMAIN old \ {"check_in", "checked_in_at"} : new[f] = old[f]

(***************************************************************************)
(* C9.  reset(id): with no record of that id it fails with "ID not found"  *)
(* and changes nothing; otherwise it returns 1, the record is not checked  *)
(* in and has a null timestamp whatever it was before, and nothing else in *)
(* the store changes.                                                      *)
(***************************************************************************)
C9_SingleReset ==
    SingleResetDone
    => LET hits == {i \in DOMAIN prev.store : KeyOf(prev.store[i]) = call[1].id}
       IN  IF hits = {}
           THEN result[1] = ValueError("ID not found") /\ store = prev.store
           ELSE /\ result[1] = Return(PyInt(1))
                /\ Len(store) = Len(prev.store)
                /\ \E i \in hits :
                       /\ ClearedCopy(prev.store[i], store[i])
                       /\ \A j \in DOMAIN store \ {i} : store[j] = prev.store[j]

\* a checked-in record is reset while another checked-in record stays
C9_Witness ==
    /\ SingleResetDone
    /\ result[1] = Return(PyInt(1))
    /\ \E i, j \in DOMAIN store :
           /\ KeyOf(store[i]) = call[1].id
           /\ CheckedIn(prev.store[i]) /\ ~CheckedIn(store[i])
           /\ j /= i /\ CheckedIn(store[j])

(***************************************************************************)
(* C10.  reset(all) leaves every record not checked in with a null         *)
(* timestamp and returns the number of records that were checked in just   *)
(* before the call.                                                        *)
(***************************************************************************)
C10_ResetAllCountsCheckedIn ==
    (/\ Finished(1, "reset") /\ ~IsSingleReset(variant, call[1].id)
     /\ result[1].kind = "ok")
    => /\ \A i \in DOMAIN store :
              ~CheckedIn(store[i]) /\ ~HasTimestamp(store[i])
       /\ result[1].val =
              PyInt(Cardinality({i \in DOMAIN prev.store : CheckedIn(prev.store[i])}))

\* the export that has just returned follows a reset that returned a count
ExportAfterReset ==
    /\ Finished(1, "export") /\ result[1].kind = "ok"
    /\ prev.lastop = "reset" /\ prev.kind = "ok"

\* the positions of the records that reset wrote
ResetPositions ==
    IF IsSingleReset(variant, prev.lastid)
    THEN {FirstMatch(store, KeyField(variant), prev.lastid)}
    ELSE DOMAIN store

(***************************************************************************)
(* C11.  An export that follows reset(id) or reset(all) renders every      *)
(* participant the reset wrote with both check-in columns empty: the row   *)
(* ends with two empty fields (A1,Alice,, for the record A1/Alice).        *)
(***************************************************************************)
C11_ExportAfterResetEmptyColumns ==
    ExportAfterReset
    => LET rows == result[1].val[2].rows
           n == Len(ExportHeader(variant))
       IN  \A i \in ResetPositions :
               rows[i][n - 1] = "" /\ rows[i][n] = ""

\* the upload is served as CSV and is empty, or its header lacks a column
\* the deployment requires
Malformed(file) ==
    /\ file.content_type = "text/csv"
    /\ \/ file.header = <<>>
       \/ ~(Range(BaseHeader(variant)) \subseteq Range(file.header))

(***************************************************************************)
(* C12.  An import of an empty byte stream, or of a file whose header      *)
(* lacks a required column, fails with a format error (the empty stream    *)
(* with the one that says so) and writes nothing: the store                *)
(* after it is the store before it.                                        *)
(***************************************************************************)
C12_MalformedImportWritesNothing ==
    (Finished(1, "import") /\ Malformed(prev.file))
    => /\ result[1].kind = "ValueError"
       /\ (prev.file.header = <<>>) <=> (result[1].val = Str("Empty file"))
       /\ store = prev.store

\* an empty upload is refused while the store holds a checked-in record
C12_Witness ==
    /\ Finished(1, "import") /\ prev.file = EmptyFile
    /\ result[1].kind = "ValueError"
    /\ \E i \in DOMAIN store : CheckedIn(store[i])

\* every row of the upload has its record in coll
AllRowsWritten(file, coll) ==
    \A r \in DOMAIN file.rows : \E i \in DOMAIN coll :
        KeyOf(coll[i]) = RowKey(file, r) /\ coll[i]["name"] = RowName(file, r)

\* the import of slot 1 has written rows and its next store call raises
ImportFailsPartWay ==
    /\ pc[1] = "import_upsert" /\ local[1].i > 1
    /\ result'[1].kind = "RuntimeError"

(***************************************************************************)
(* C13.  When the store fails after an import has written some rows, the   *)
(* import fails as a whole batch: the store then holds every row of the    *)
(* batch or is as it was before the import, and the error reported carries *)
(* the number of rows processed so far.                                    *)
(***************************************************************************)
C13_ImportFailsAtomically ==
    [][ImportFailsPartWay
       => /\ store' = prev.store \/ AllRowsWritten(prev.file, store')
          /\ result'[1].val = PyInt(local[1].i - 1)]_vars

\* the client's connection is up and its handler is past websocket.accept()
\* and the opening of the change stream
Connected(s) ==
    sessions[s].open /\ sessions[s].state \in {"waiting", "reading"}

\* the change wrote a participant's check_in or checked_in_at
ChangesCheckIn(change) ==
    /\ change.operationType = "update"
    /\ DOMAIN change.updatedFields \cap {"check_in", "checked_in_at"} /= {}

\* the messages client s has received for the change at feed position n
Deliveries(s, n) ==
    {k \in DOMAIN sessions[s].sent : sessions[s].sent[k].clusterTime = n}

\* the change at position n is still to come out of the stream of s, or is
\* the one its handler is reading the record of
InFlight(s, n) ==
    \/ n >= sessions[s].pos
    \/ sessions[s].state = "reading" /\ sessions[s].change = n

(***************************************************************************)
(* C14.  A client that is connected receives, for every change of a        *)
(* participant's check_in / checked_in_at committed since its connection   *)
(* was accepted, exactly one event (unless the change is still on its way  *)
(* through the handler), and the events arrive in commit order.            *)
(***************************************************************************)
C14_OneEventPerChangeInOrder ==
    \A s \in Subs :
        Connected(s)
        => /\ \A n \in (sessions[s].since + 1)..Len(oplog) :
                  ChangesCheckIn(oplog[n])
                  => \/ InFlight(s, n) /\ Deliveries(s, n) = {}
                     \/ ~InFlight(s, n) /\ Cardinality(Deliveries(s, n)) = 1
           /\ \A j, k \in DOMAIN sessions[s].sent :
                  j < k => sessions[s].sent[j].clusterTime
                               < sessions[s].sent[k].clusterTime

(***************************************************************************)
(* C15.  The record carried by the event delivered for a change is the     *)
(* participant's state right after that change committed: the check_in and *)
(* checked_in_at the change wrote are those of the record in the event,    *)
(* also when a later change of the participant commits before the handler  *)
(* re-reads the record.                                                    *)
(***************************************************************************)
C15_EventCarriesPostImage ==
    \A s \in Subs : \A k \in DOMAIN sessions[s].sent :
        LET msg == sessions[s].sent[k]
        IN  msg.clusterTime > 0
            => \A f \in DOMAIN oplog[msg.clusterTime].updatedFields
                         \cap {"check_in", "checked_in_at"} :
                   msg.text[2][f] = oplog[msg.clusterTime].updatedFields[f]

\* the handler of client s still holds its change stream
HoldsStream(s) == sessions[s].state \in {"waiting", "reading"}

\* a step watch_entries can take for client s without any new write
HandlerStep(s) == NextChange(s) \/ ReadAndSend(s)

(***************************************************************************)
(* C16.  Once the connection of a client is closed, the handler that still *)
(* holds the client's change stream can go on to release it by itself: it  *)
(* has a step to take whether or not a further write reaches the store.    *)
(***************************************************************************)
C16_ClosedSessionReleasesStream ==
    \A s \in Subs :
        (~sessions[s].open /\ HoldsStream(s)) => ENABLED HandlerStep(s)

\* the change stream of client s raises in this step
FeedFailsFor(s) ==
    sessions[s].state = "waiting" /\ sessions'[s].state = "ended"

\* the error report: {"error": ...}
IsErrorReport(msg) == msg.clusterTime = 0 /\ "error" \in DOMAIN msg.text[2]

(***************************************************************************)
(* C17.  When the change stream of one client fails, the session of that   *)
(* client ends: its stream is released, its connection is closed, and, if  *)
(* the connection was up, the error is the last message it receives.  No   *)
(* other client gets a message or loses anything: the other sessions and   *)
(* the store are as they were.                                             *)
(***************************************************************************)
C17_FeedFailureEndsOneSession ==
    [][\A s \in Subs :
          FeedFailsFor(s)
          => /\ ~HoldsStream(s)' /\ ~sessions'[s].open
             /\ sessions[s].open
                => /\ Len(sessions'[s].sent) = Len(sessions[s].sent) + 1
                   /\ IsErrorReport(sessions'[s].sent[Len(sessions'[s].sent)])
                   /\ SubSeq(sessions'[s].sent, 1, Len(sessions[s].sent))
                          = sessions[s].sent
             /\ \A t \in Subs \ {s} : sessions'[t] = sessions[t]
             /\ store' = store /\ oplog' = oplog]_vars

\* the session of one client has ended with the error reported, and another
\* client, which got no error, has received the event of a change the
\* failed stream never yielded
C17_Witness ==
    \E s, t \in Subs :
        /\ s /= t
        /\ sessions[s].state = "ended" /\ ~sessions[s].open
        /\ \E k \in DOMAIN sessions[s].sent : IsErrorReport(sessions[s].sent[k])
        /\ Connected(t)
        /\ \A k \in DOMAIN sessions[t].sent : ~IsErrorReport(sessions[t].sent[k])
        /\ \E k \in DOMAIN sessions[t].sent :
               sessions[t].sent[k].clusterTime >= sessions[s].pos

\* the same records, under the same participant ids, before and after
SameIds ==
    /\ Len(store') = Len(store)
    /\ \A i \in DOMAIN store :
           KeyOf(store'[i]) = KeyOf(store[i]) /\ store'[i]["_id"] = store[i]["_id"]

\* the step is one of an import in flight
ImportStep == pc[1] \in {"import_upsert", "import_distinct", "import_insert"}

\* check_in's find_one answers, and no record has the id asked for
CheckInOfUnknownId ==
    /\ pc[1] = "checkin_find"
    /\ \A i \in DOMAIN store : KeyOf(store[i]) /= call[1].id

(***************************************************************************)
(* C18.  Only an import changes which participant ids the store holds: no  *)
(* step of check_in, of reset(id) or reset(all), or of export creates or   *)
(* deletes a record, and check_in(id) for an id without a record fails     *)
(* with "ID not found" and leaves the store as it was.                     *)
(***************************************************************************)
C18_OnlyImportChangesIds ==
    [][/\ ~ImportStep => SameIds
       /\ CheckInOfUnknownId
          => result'[1] = ValueError("ID not found") /\ store' = store]_vars

\* check_in of an id without a record has failed while the store holds a
\* record of another id, which is as it was
C18_Witness ==
    /\ Finished(1, "check_in") /\ result[1] = ValueError("ID not found")
    /\ store /= <<>> /\ store = prev.store
    /\ \A i \in DOMAIN store : KeyOf(store[i]) /= call[1].id

\* slot p holds the timestamp its check_in returned, and record i has it
HoldsReturned(p, i) ==
    /\ Finished(p, "check_in") /\ result[p].kind = "ok"
    /\ KeyOf(store[i]) = call[p].id
    /\ store[i]["checked_in_at"] = result[p].val

\* the step is the write of some check_in
CheckInWrites ==
    \E q \in Procs : pc[q] = "checkin_update" /\ pc'[q] = "idle"

(***************************************************************************)
(* C19.  Once check_in(id) has returned timestamp t and the record has it, *)
(* no write of a later or concurrent check_in changes the record's         *)
(* checked_in_at: it is still t after that write.                          *)
(***************************************************************************)
C19_ReturnedTimestampKept ==
    [][\A p \in Procs : \A i \in DOMAIN store :
          (HoldsReturned(p, i) /\ CheckInWrites)
          => store'[i]["checked_in_at"] = result[p].val]_vars

\* the import that has just returned uploaded the file the export before
\* it returned
RoundTrip ==
    /\ Finished(1, "import") /\ result[1].kind = "ok"
    /\ prev.lastop = "export" /\ prev.kind = "ok"
    /\ prev.file = export_csv(variant, prev.store)

(***************************************************************************)
(* C20.  Importing the file that export has produced gives every           *)
(* participant the check-in state it had when exported: a participant that *)
(* was not checked in is not checked in after the import (a check_in on it *)
(* passes the already-checked-in test), one that was checked in still is.  *)
(***************************************************************************)
C20_ExportImportRoundTrip ==
    RoundTrip
    => /\ Len(store) = Len(prev.store)
       /\ \A i \in DOMAIN store :
              CheckedIn(store[i]) <=> CheckedIn(prev.store[i])

(***************************************************************************)
(* C21.  Every event a client receives answers a committed change that     *)
(* wrote some participant's check_in or checked_in_at: the insertion of a  *)
(* new record, and an upsert import that rewrites only the name of a       *)
(* record, deliver no event.                                               *)
(***************************************************************************)
C21_EventsOnlyForCheckInChanges ==
    \A s \in Subs : \A k \in DOMAIN sessions[s].sent :
        LET msg == sessions[s].sent[k]
        IN  msg.clusterTime > 0 => ChangesCheckIn(oplog[msg.clusterTime])

\* the find of the export of slot 1 answers in this step
ExportReads == pc[1] = "export_find" /\ pc'[1] = "idle"

\* the columns of the deployment, key first, check-in columns last
FixedColumns(header) ==
    /\ Len(header) = Len(BaseHeader(variant)) + 2
    /\ header[1] = KeyField(variant) /\ header[2] = "name"
    /\ header[Len(header) - 1] = "check_in"
    /\ header[Len(header)] = "checked_in_at"

\* the row renders the record column by column: a str attribute as it is,
\* a missing attribute as the empty field
RendersRecord(header, row, record) ==
    /\ Len(row) = Len(header)
    /\ \A c \in DOMAIN header :
           /\ header[c] \notin DOMAIN record => row[c] = ""
           /\ (header[c] \in DOMAIN record /\ record[header[c]][1] = "str")
              => row[c] = record[header[c]][2]

(***************************************************************************)
(* C22.  Export leaves the store as it is and returns, under the fixed     *)
(* header of the deployment, one row per record the store holds when it is *)
(* read, in the store's order and the header's column order; an attribute  *)
(* a record lacks gives an empty field, not an error.                      *)
(***************************************************************************)
C22_ExportRendersStore ==
    [][ExportReads
       => /\ store' = store
          /\ result'[1].kind = "ok"
          /\ LET file == result'[1].val[2]
             IN  /\ FixedColumns(file.header)
                 /\ Len(file.rows) = Len(store)
                 /\ \A i \in DOMAIN store :
                        RendersRecord(file.header, file.rows[i], store[i])]_vars

\* an export has returned two rows, the first for a record that has its
\* key alone, rendered with every other field empty
C22_Witness ==
    /\ Finished(1, "export") /\ result[1].kind = "ok"
    /\ Len(store) = 2 /\ Len(result[1].val[2].rows) = 2
    /\ DOMAIN store[1] = {"_id", KeyField(variant)}
    /\ result[1].val[2].rows[1][1] = "A1"
    /\ \A c \in 2..Len(result[1].val[2].header) :
           result[1].val[2].rows[1][c] = ""

\* the positions of the records the import of slot 1 has added
Added == (Len(prev.store) + 1)..Len(store)

\* every str attribute of the record has no blanks around it
Trimmed(record) ==
    \A f \in DOMAIN record :
        record[f][1] = "str" => strip(record[f][2]) = record[f][2]

(***************************************************************************)
(* C23.  Insert-only policy: every record an import adds is stored with    *)
(* the blanks around each field removed, and no record is added for a row  *)
(* whose key, blanks removed, is the key of a record already in the store. *)
(***************************************************************************)
C23_InsertOnlyTrims ==
    InsertOnlyImportDone
    => \A j \in Added :
           /\ Trimmed(store[j])
           /\ \A i \in DOMAIN prev.store :
                  strip(KeyOf(store[j])[2]) /= KeyOf(prev.store[i])[2]

====
